---- MODULE Spec2Model ----
(***************************************************************************)
(* The adaptive interview engine of Backend/services/temp.py:              *)
(* chat_with_founder (one turn: reply generation, then extraction) and     *)
(* analyze_and_extract (merge of the reasoning service's proposals and the *)
(* completion decision), driven turn by turn over one session's stored     *)
(* conversation state.                                                     *)
(*                                                                         *)
(* Text is a sequence of symbols.  A symbol is one character of text the   *)
(* reasoning service returned ("a" stands for any character that is not    *)
(* white space, '.', '?' or '!'), or one non-empty literal chunk of a      *)
(* message template of the code.                                           *)
(***************************************************************************)
EXTENDS Integers, Sequences, FiniteSets

\* Number of participant messages of the session that are processed.
MaxTurns == 3

\* Entries of the "extracted" object and the "cannot_answer" list, together,
\* in one answer of the reasoning service to the extraction call.
MaxEntries == 2

TurnIds == 1..MaxTurns

(***************************************************************************)
(* Sequence helpers.                                                       *)
(***************************************************************************)
Range(s) == {s[i] : i \in 1..Len(s)}

RECURSIVE SelectFields(_, _)
\* [x for x in s if x in keep]
SelectFields(s, keep) ==
    IF s = <<>> THEN <<>>
    ELSE IF Head(s) \in keep
         THEN <<Head(s)>> \o SelectFields(Tail(s), keep)
         ELSE SelectFields(Tail(s), keep)

(***************************************************************************)
(* The issue catalog.  Each issue is a record with the keys the code reads.*)
(***************************************************************************)
AllIssues ==
    << [field |-> "revenue", question |-> <<"What is your revenue", "?">>,
        category |-> "financial", importance |-> "critical", status |-> "missing"],
       [field |-> "team_size", question |-> <<"How large is your team", "?">>,
        category |-> "team", importance |-> "high", status |-> "missing"] >>

\* The catalogs a session is created with: the non-empty prefixes of AllIssues.
Catalogs == {SubSeq(AllIssues, 1, n) : n \in 1..Len(AllIssues)}

\* A field name the reasoning service may propose that is in no catalog.
NoiseField == "valuation"

Fields == {AllIssues[i].field : i \in 1..Len(AllIssues)} \cup {NoiseField}

\* all_issue_fields = [issue['field'] for issue in issues]
AllIssueFields(issues) == [i \in 1..Len(issues) |-> issues[i].field]

(***************************************************************************)
(* Text.                                                                   *)
(***************************************************************************)
EndsWith(s, c) == Len(s) > 0 /\ s[Len(s)] = c

Contains(s, c) == \E i \in 1..Len(s) : s[i] = c

RECURSIVE LStrip(_)
LStrip(s) == IF s # <<>> /\ Head(s) = " " THEN LStrip(Tail(s)) ELSE s

RECURSIVE RStrip(_)
RStrip(s) ==
    IF s # <<>> /\ s[Len(s)] = " " THEN RStrip(SubSeq(s, 1, Len(s) - 1)) ELSE s

\* str.strip()
Strip(s) == RStrip(LStrip(s))

\* EnsureQuestionMark without the test for a question mark elsewhere.
EnsureQuestionMarkAtEnd(ai_message) ==
    IF EndsWith(ai_message, "?") \/ EndsWith(ai_message, "!")
    THEN ai_message
    ELSE IF EndsWith(ai_message, ".")
         THEN SubSeq(ai_message, 1, Len(ai_message) - 1) \o <<"?">>
         ELSE ai_message \o <<"?">>

\* The question-mark rule applied to a continuation reply.
EnsureQuestionMark(ai_message) ==
    IF ~EndsWith(ai_message, "?")
    THEN IF ~(\E p \in {"?", "!", "."} : EndsWith(ai_message, p))
         THEN ai_message \o <<"?">>
         ELSE IF EndsWith(ai_message, ".")
              THEN IF ~Contains(ai_message, "?")
                   THEN SubSeq(ai_message, 1, Len(ai_message) - 1) \o <<"?">>
                   ELSE ai_message
              ELSE ai_message
    ELSE ai_message

\* A text holds at least one character.
NonEmptyText(s) == \E i \in 1..Len(s) : s[i] # ""

(***************************************************************************)
(* Python dicts are functions; d.get(k) of a missing key is None.          *)
(***************************************************************************)
None == "None"

Get(d, k) == IF k \in DOMAIN d THEN d[k] ELSE None

\* {**d, field: data}
Put(d, field, data) ==
    [k \in DOMAIN d \cup {field} |-> IF k = field THEN data ELSE d[k]]

(***************************************************************************)
(* What the reasoning service can answer to the generation call.           *)
(***************************************************************************)
\* Texts the service returns to the generation call: white space only, and
\* a sentence with surrounding white space that ends in a full stop.
GenTexts == { <<" ">>, <<" ", "a", ".", " ">> }

GenOutcomes ==
    {[kind |-> "raise"], [kind |-> "no_text"]}
        \cup {[kind |-> "text", text |-> x] : x \in GenTexts}

(***************************************************************************)
(* What the reasoning service can answer to the extraction call.  A        *)
(* proposal's data is a JSON value: an object with a value and possibly a  *)
(* confidence, or something that is not an object (a bare string).         *)
(***************************************************************************)
ProposalData ==
    { [type |-> "object", value |-> "v1", confidence |-> "high"],
      [type |-> "object", value |-> "v2", confidence |-> "medium"],
      [type |-> "object", value |-> "v1", confidence |-> "low"],
      [type |-> "object", value |-> "v2"],
      [type |-> "string", value |-> "v1"] }

\* What the service proposes for a name that is no issue field.
NoiseData ==
    { [type |-> "object", value |-> "v1", confidence |-> "high"],
      [type |-> "string", value |-> "v1"] }

\* One entry of the "extracted" object: <<field name, data>>.
Proposals ==
    ((Fields \ {NoiseField}) \X ProposalData) \cup ({NoiseField} \X NoiseData)

\* The "extracted" object in the order its entries are iterated: n entries,
\* no field name twice.
ExtractedObjects(n) ==
    {e \in [1..n -> Proposals] : \A i, j \in 1..n : i # j => e[i][1] # e[j][1]}

\* The "cannot_answer" list: n field names.
CannotAnswerLists(n) == [1..n -> Fields]

\* The parsed JSON objects: at most MaxEntries entries in "extracted" and
\* "cannot_answer" together.
JsonObjects ==
    UNION { { [kind |-> "object", extracted |-> e, cannot_answer |-> c] :
                 e \in ExtractedObjects(n), c \in CannotAnswerLists(m) } :
            <<n, m>> \in {x \in (0..MaxEntries) \X (0..MaxEntries) :
                             x[1] + x[2] <= MaxEntries} }

\* The call raises; the response has no text; the text is empty; the text is
\* no JSON; the JSON is no object; the JSON is an object.
ExtractOutcomes ==
    { [kind |-> k] : k \in {"raise", "no_text", "empty", "bad_json", "not_object"} }
        \cup JsonObjects

(***************************************************************************)
(* chat_with_founder, up to the generation call.                           *)
(***************************************************************************)
\* gathered_issue_fields = [f for f in gathered_info.keys() if f in all_issue_fields]
GatheredIssueFields(issues, gathered_info) ==
    DOMAIN gathered_info \cap Range(AllIssueFields(issues))

RECURSIVE StillNeededIgnoringCannot(_, _, _)
\* StillNeededFrom excluding the gathered fields only.
StillNeededIgnoringCannot(issues, gathered_issue_fields, cannot_answer_fields) ==
    IF issues = <<>> THEN <<>>
    ELSE IF Head(issues).field \notin gathered_issue_fields
         THEN <<Head(issues)>>
                 \o StillNeededIgnoringCannot(Tail(issues), gathered_issue_fields,
                                              cannot_answer_fields)
         ELSE StillNeededIgnoringCannot(Tail(issues), gathered_issue_fields,
                                        cannot_answer_fields)

RECURSIVE StillNeededFrom(_, _, _)
StillNeededFrom(issues, gathered_issue_fields, cannot_answer_fields) ==
    IF issues = <<>> THEN <<>>
    ELSE IF /\ Head(issues).field \notin gathered_issue_fields
            /\ Head(issues).field \notin Range(cannot_answer_fields)
         THEN <<Head(issues)>>
                 \o StillNeededFrom(Tail(issues), gathered_issue_fields, cannot_answer_fields)
         ELSE StillNeededFrom(Tail(issues), gathered_issue_fields, cannot_answer_fields)

\* still_needed: the issues neither gathered nor marked cannot-answer, in
\* catalog order.
StillNeeded(issues, gathered_info, cannot_answer_fields) ==
    StillNeededFrom(issues, GatheredIssueFields(issues, gathered_info),
                    cannot_answer_fields)

\* next_questions = [q['question'] for q in still_needed[:3]]
NextQuestionsAll(still_needed) ==
    [i \in 1..Len(still_needed) |-> still_needed[i].question]

\* next_questions = [q['question'] for q in still_needed[:3]]
NextQuestions(still_needed) ==
    [i \in 1..(IF Len(still_needed) < 3 THEN Len(still_needed) ELSE 3)
        |-> still_needed[i].question]

\* WillBeClosing one issue early.
WillBeClosingEarly(still_needed) == Len(still_needed) <= 1

\* will_be_closing = len(still_needed) <= 0
WillBeClosing(still_needed) == Len(still_needed) <= 0

(***************************************************************************)
(* chat_with_founder, from the generation call to the reply.               *)
(***************************************************************************)
FounderName == "Founder"

ClosingFallback ==
    <<"Thank you so much for your time, ", FounderName, "! We've gathered excellent insights">>

\* The except branch: the templated reply.
FallbackMessage(will_be_closing, still_needed) ==
    IF will_be_closing
    THEN ClosingFallback
    ELSE LET next_q == IF still_needed # <<>>
                       THEN still_needed[1].question
                       ELSE <<"What else can you tell me", "?">>
         IN  <<"Thanks for sharing! ">> \o next_q

\* The except branch of chat_with_founder is taken: the call raised, the
\* response has no text, or the stripped text is empty.
ChatError(response) ==
    \/ response.kind # "text"
    \/ Strip(response.text) = <<>>

\* ChatReply without the check for an empty stripped text.
ChatReplyNoEmptyCheck(response, will_be_closing, still_needed) ==
    IF response.kind # "text"
    THEN FallbackMessage(will_be_closing, still_needed)
    ELSE LET ai_message == Strip(response.text)
         IN  IF ~will_be_closing
             THEN EnsureQuestionMark(ai_message)
             ELSE ai_message

\* The reply of the turn for one outcome of the generation call.
ChatReply(response, will_be_closing, still_needed) ==
    IF response.kind # "text"
    THEN FallbackMessage(will_be_closing, still_needed)
    ELSE LET ai_message == Strip(response.text)
         IN  IF ai_message = <<>>
             THEN FallbackMessage(will_be_closing, still_needed)
             ELSE IF ~will_be_closing
                  THEN EnsureQuestionMark(ai_message)
                  ELSE ai_message

\* ExtendedHistory with the reply put before the participant's message.
ExtendedHistoryReplyFirst(chat_history, user_message, ai_message) ==
    chat_history \o << [role |-> "assistant", message |-> ai_message],
                       [role |-> "user", message |-> user_message] >>

\* The transcript chat_with_founder hands to analyze_and_extract.
ExtendedHistory(chat_history, user_message, ai_message) ==
    chat_history \o << [role |-> "user", message |-> user_message],
                       [role |-> "assistant", message |-> ai_message] >>

(***************************************************************************)
(* analyze_and_extract.                                                    *)
(***************************************************************************)
\* user_messages = [msg for msg in chat_history if msg['role'] == 'user']
UserMessages(chat_history) ==
    {i \in 1..Len(chat_history) : chat_history[i].role = "user"}

\* ExtractionSkipped with the threshold one lower: only an empty list skips.
ExtractionSkippedOnNone(chat_history) == Cardinality(UserMessages(chat_history)) < 1

\* len(user_messages) < 2: the reasoning service is not asked.
ExtractionSkipped(chat_history) == Cardinality(UserMessages(chat_history)) < 2

\* fields_needed: the fields of the issues that are no key of gathered_info.
FieldsNeeded(issues, gathered_info) ==
    SelectFields(AllIssueFields(issues), Fields \ DOMAIN gathered_info)

\* The return of the first-turn branch.
SkippedResult(issues, gathered_info) ==
    [is_complete |-> FALSE,
     gathered_info |-> gathered_info,
     still_pending |-> AllIssueFields(issues),
     cannot_answer_fields |-> <<>>]

\* FailedResult with the state reset instead of handed back.
FailedResultDropsState(issues, gathered_info, merged) ==
    [is_complete |-> FALSE,
     gathered_info |-> <<>>,
     still_pending |-> AllIssueFields(issues),
     cannot_answer_fields |-> <<>>]

\* FailedResult handing back the map the merge loop had built when it raised.
FailedResultKeepsMerged(issues, gathered_info, merged) ==
    [is_complete |-> FALSE,
     gathered_info |-> merged,
     still_pending |-> FieldsNeeded(issues, gathered_info),
     cannot_answer_fields |-> <<>>]

\* The return of both except branches.
FailedResult(issues, gathered_info, merged) ==
    [is_complete |-> FALSE,
     gathered_info |-> gathered_info,
     still_pending |-> FieldsNeeded(issues, gathered_info),
     cannot_answer_fields |-> <<>>]

\* ConfidenceAccepted rejecting only the label low.
ConfidenceNotLow(data) == Get(data, "confidence") # "low"

\* data.get('confidence') in ['high', 'medium']
ConfidenceAccepted(data) == Get(data, "confidence") \in {"high", "medium"}

\* IsIssueField without the catalog check.
IsAnyField(field, all_issue_fields) == TRUE

\* field in all_issue_fields
IsIssueField(field, all_issue_fields) == field \in Range(all_issue_fields)

RECURSIVE MergeExtracted(_, _, _)
\* The merge loop over the entries of "extracted".  data.get raises on data
\* that is not an object, and is evaluated only for an issue field; raised
\* is then TRUE and merged holds the entries merged before it.
MergeExtracted(merged, extracted, all_issue_fields) ==
    IF extracted = <<>> THEN [raised |-> FALSE, merged |-> merged]
    ELSE LET field == Head(extracted)[1]
             data  == Head(extracted)[2]
         IN  IF IsIssueField(field, all_issue_fields)
             THEN IF data.type # "object"
                  THEN [raised |-> TRUE, merged |-> merged]
                  ELSE IF ConfidenceAccepted(data)
                       THEN MergeExtracted(Put(merged, field, data), Tail(extracted),
                                           all_issue_fields)
                       ELSE MergeExtracted(merged, Tail(extracted), all_issue_fields)
             ELSE MergeExtracted(merged, Tail(extracted), all_issue_fields)

\* total_cannot_answer counted on the new cannot-answer fields alone.
TotalCannotAnswerNewOnly(existing_cannot_answer, new_cannot_answer) ==
    Cardinality(Range(new_cannot_answer))

\* total_cannot_answer counted on the concatenated list, without set().
TotalCannotAnswerNoSet(existing_cannot_answer, new_cannot_answer) ==
    Len(existing_cannot_answer \o new_cannot_answer)

\* total_cannot_answer = len(set(existing_cannot_answer + new_cannot_answer))
TotalCannotAnswer(existing_cannot_answer, new_cannot_answer) ==
    Cardinality(Range(existing_cannot_answer \o new_cannot_answer))

\* gathered_count = len([f for f in merged.keys() if f in all_issue_fields])
GatheredCount(merged, all_issue_fields) ==
    Cardinality({f \in DOMAIN merged : f \in Range(all_issue_fields)})

\* is_complete = (total_attempted >= total_issues)
IsComplete(merged, existing_cannot_answer, new_cannot_answer, all_issue_fields) ==
    GatheredCount(merged, all_issue_fields)
        + TotalCannotAnswer(existing_cannot_answer, new_cannot_answer)
        >= Len(all_issue_fields)

\* The return of the try block for a parsed JSON object.
MergedResult(issues, merged, existing_cannot_answer, cannot_answer) ==
    LET all_issue_fields == AllIssueFields(issues)
        new_cannot_answer == SelectFields(cannot_answer, Range(all_issue_fields))
    IN  [is_complete |-> IsComplete(merged, existing_cannot_answer,
                                    new_cannot_answer, all_issue_fields),
         gathered_info |-> merged,
         still_pending |-> SelectFields(all_issue_fields,
                               Fields \ (DOMAIN merged \cup Range(existing_cannot_answer))),
         cannot_answer_fields |-> new_cannot_answer]

\* analyze_and_extract once the reasoning service has answered with response.
ExtractedResult(issues, gathered_info, existing_cannot_answer, response) ==
    IF response.kind # "object"
    THEN FailedResult(issues, gathered_info, gathered_info)
    ELSE LET m == MergeExtracted(gathered_info, response.extracted,
                                 AllIssueFields(issues))
         IN  IF m.raised
             THEN FailedResult(issues, gathered_info, m.merged)
             ELSE MergedResult(issues, m.merged, existing_cannot_answer,
                               response.cannot_answer)

\* Returned for an analyze_and_extract that merges into the gathered_info it
\* was passed instead of a copy.
ReturnedMergedInPlace(T, analysis, completion_check) ==
    [pc |-> "returned",
     interview_data |-> [issues |-> T.interview_data.issues,
                         gathered_info |-> completion_check.gathered_info,
                         cannot_answer_fields |-> T.interview_data.cannot_answer_fields],
     chat_history |-> T.chat_history,
     user_message |-> T.user_message,
     still_needed |-> T.still_needed,
     next_questions |-> T.next_questions,
     will_be_closing |-> T.will_be_closing,
     chat_error |-> T.chat_error,
     ai_message |-> T.ai_message,
     history |-> T.history,
     analysis |-> analysis,
     completion_check |-> completion_check,
     result |-> [message |-> T.ai_message,
                 is_complete |-> completion_check.is_complete,
                 gathered_info |-> completion_check.gathered_info,
                 cannot_answer_fields |-> completion_check.cannot_answer_fields]]

\* The turn once chat_with_founder has returned: what it computed (T), the
\* service's answer to the extraction call, and the result handed back.
Returned(T, analysis, completion_check) ==
    [pc |-> "returned",
     interview_data |-> T.interview_data,
     chat_history |-> T.chat_history,
     user_message |-> T.user_message,
     still_needed |-> T.still_needed,
     next_questions |-> T.next_questions,
     will_be_closing |-> T.will_be_closing,
     chat_error |-> T.chat_error,
     ai_message |-> T.ai_message,
     history |-> T.history,
     analysis |-> analysis,
     completion_check |-> completion_check,
     result |-> [message |-> T.ai_message,
                 is_complete |-> completion_check.is_complete,
                 gathered_info |-> completion_check.gathered_info,
                 cannot_answer_fields |-> completion_check.cannot_answer_fields]]

(***************************************************************************)
(* The session: the stored conversation state and the turns in flight.     *)
(***************************************************************************)
VARIABLES
    issues,                \* the issue catalog of the session
    gathered_info,         \* stored: field -> accepted answer
    cannot_answer_fields,  \* stored: fields the participant could not answer
    chat_history,          \* stored: the transcript
    turn,                  \* per participant message: where its turn stands
    completed,             \* stored: a turn has returned is_complete = true
    deals,                 \* the 'deals' collection: deal_id -> document
    calls                  \* the requests to the deals router, per request

vars == <<issues, gathered_info, cannot_answer_fields, chat_history, turn,
          completed, deals, calls>>

\* What the participant writes.
ParticipantTexts == { <<"a">> }

\* The caller's union of this turn's new cannot-answer fields into the stored ones.
RECURSIVE UnionInto(_, _)
UnionInto(stored, new) ==
    IF new = <<>> THEN stored
    ELSE IF Head(new) \in Range(stored)
         THEN UnionInto(stored, Tail(new))
         ELSE UnionInto(Append(stored, Head(new)), Tail(new))

InFlight(t) == turn[t].pc \in {"generated", "extracting", "returned"}

\* SessionFree for a caller that starts a turn whatever is in flight.
SessionNeverHeld == TRUE

\* No turn of the session is between reading the state and storing its result.
SessionFree == \A u \in TurnIds : ~InFlight(u)

\* Messages are processed in arrival order.
InArrivalOrder(t) == \A u \in TurnIds : u < t => turn[u].pc # "waiting"

Init ==
    /\ issues \in Catalogs
    /\ gathered_info = <<>>
    /\ cannot_answer_fields = <<>>
    /\ chat_history = <<>>
    /\ turn = [t \in TurnIds |-> [pc |-> "waiting"]]
    /\ completed = FALSE
    /\ deals = <<>>
    /\ calls = <<>>

\* The caller reads the stored state and calls chat_with_founder, which runs
\* up to the return of its generation call.
StartTurnWith(t, responses) ==
    /\ turn[t].pc = "waiting"
    /\ InArrivalOrder(t)
    /\ SessionFree
    /\ \E user_message \in ParticipantTexts, response \in responses :
         LET still_needed == StillNeeded(issues, gathered_info, cannot_answer_fields)
         IN  turn' = [turn EXCEPT ![t] =
                 [pc |-> "generated",
                  interview_data |-> [issues |-> issues,
                                      gathered_info |-> gathered_info,
                                      cannot_answer_fields |-> cannot_answer_fields],
                  chat_history |-> chat_history,
                  user_message |-> user_message,
                  still_needed |-> still_needed,
                  next_questions |-> NextQuestions(still_needed),
                  will_be_closing |-> WillBeClosing(still_needed),
                  response |-> response]]
    /\ UNCHANGED <<issues, gathered_info, cannot_answer_fields, chat_history,
                   completed, deals, calls>>

StartTurn(t) == StartTurnWith(t, GenOutcomes)

\* The reply is fixed from the generation response and analyze_and_extract
\* is entered: it returns at once on a first turn, else it asks the service.
ComposeReply(t) ==
    /\ turn[t].pc = "generated"
    /\ LET T == turn[t]
           ai_message == ChatReply(T.response, T.will_be_closing, T.still_needed)
           history == ExtendedHistory(T.chat_history, T.user_message, ai_message)
           replied == [pc |-> "extracting",
                       interview_data |-> T.interview_data,
                       chat_history |-> T.chat_history,
                       user_message |-> T.user_message,
                       still_needed |-> T.still_needed,
                       next_questions |-> T.next_questions,
                       will_be_closing |-> T.will_be_closing,
                       chat_error |-> ChatError(T.response),
                       ai_message |-> ai_message,
                       history |-> history]
       IN  turn' = [turn EXCEPT ![t] =
               IF ExtractionSkipped(history)
               THEN Returned(replied, [kind |-> "not_called"],
                             SkippedResult(T.interview_data.issues,
                                           T.interview_data.gathered_info))
               ELSE replied]
    /\ UNCHANGED <<issues, gathered_info, cannot_answer_fields, chat_history,
                   completed, deals, calls>>

\* The extraction call ends; analyze_and_extract and then chat_with_founder return.
ExtractAnswers(t) ==
    /\ turn[t].pc = "extracting"
    /\ \E analysis \in ExtractOutcomes :
         LET T == turn[t]
         IN  turn' = [turn EXCEPT ![t] =
                 Returned(T, analysis,
                          ExtractedResult(T.interview_data.issues,
                                          T.interview_data.gathered_info,
                                          T.interview_data.cannot_answer_fields,
                                          analysis))]
    /\ UNCHANGED <<issues, gathered_info, cannot_answer_fields, chat_history,
                   completed, deals, calls>>

\* The caller stores the returned state: gathered_info as returned, the new
\* cannot-answer fields unioned into the stored ones, the transcript extended.
\* That a turn has returned is_complete = true is remembered.
Persist(t) ==
    /\ turn[t].pc = "returned"
    /\ gathered_info' = turn[t].result.gathered_info
    /\ cannot_answer_fields' =
           UnionInto(cannot_answer_fields, turn[t].result.cannot_answer_fields)
    /\ chat_history' =
           ExtendedHistory(chat_history, turn[t].user_message, turn[t].result.message)
    /\ turn' = [turn EXCEPT ![t] = [pc |-> "done"]]
    /\ completed' = (completed \/ turn[t].result.is_complete)
    /\ UNCHANGED <<issues, deals, calls>>

Next ==
    \E t \in TurnIds :
        \/ StartTurn(t)
        \/ ComposeReply(t)
        \/ ExtractAnswers(t)
        \/ Persist(t)

Spec == Init /\ [][Next]_vars

(***************************************************************************)
(* One call of chat_with_founder on any input: the interview_data and the  *)
(* transcript are whatever the caller passes, not what earlier turns left. *)
(***************************************************************************)
\* The most entries of an incoming cannot_answer_fields list.
MaxStoredCannot == 2

\* Incoming gathered_info maps: any set of names, issue fields or not.
IncomingGathered ==
    UNION { [S -> { [type |-> "object", value |-> "v1", confidence |-> "high"] }] :
            S \in SUBSET Fields }

\* Incoming cannot_answer_fields lists: any names, repeated or not.
IncomingCannot == UNION { [1..n -> Fields] : n \in 0..MaxStoredCannot }

\* Incoming transcripts: none, a greeting of the agent, one earlier exchange.
IncomingHistories ==
    { <<>>,
      << [role |-> "assistant", message |-> <<"a">>] >>,
      ExtendedHistory(<<>>, <<"a">>, <<"a", "?">>) }

InitAny ==
    /\ issues \in Catalogs
    /\ gathered_info \in IncomingGathered
    /\ cannot_answer_fields \in IncomingCannot
    /\ chat_history \in IncomingHistories
    /\ turn = [t \in TurnIds |-> [pc |-> "waiting"]]
    /\ completed = FALSE
    /\ deals = <<>>
    /\ calls = <<>>

\* The call runs to its return; the caller does not store the result.
NextAny ==
    \E t \in TurnIds :
        \/ StartTurn(t)
        \/ ComposeReply(t)
        \/ ExtractAnswers(t)

SpecAny == InitAny /\ [][NextAny]_vars

(***************************************************************************)
(* The reply of one call of chat_with_founder, for any text the reasoning  *)
(* service returns and a catalog of up to four issues.                     *)
(***************************************************************************)
\* The most characters of a text returned to the generation call.
MaxTextLen == 3

\* The characters of such a text: a letter, white space, the punctuation
\* the question-mark rule looks at.
Characters == {"a", " ", ".", "?", "!"}

ReplyTexts == UNION { [1..n -> Characters] : n \in 0..MaxTextLen }

ReplyOutcomes ==
    {[kind |-> "raise"], [kind |-> "no_text"]}
        \cup {[kind |-> "text", text |-> x] : x \in ReplyTexts}

\* A catalog longer than the three candidate questions of a reply.
LongIssues ==
    AllIssues \o
    << [field |-> "market", question |-> <<"How large is your market", "?">>,
        category |-> "market", importance |-> "medium", status |-> "missing"],
       [field |-> "burn", question |-> <<"What is your burn rate", "?">>,
        category |-> "financial", importance |-> "low", status |-> "missing"] >>

\* Any catalog that is a prefix of LongIssues, any of its fields gathered
\* and any of them cannot-answer.
InitReply ==
    /\ issues \in {SubSeq(LongIssues, 1, n) : n \in 1..Len(LongIssues)}
    /\ gathered_info \in
           UNION { [S -> { [type |-> "object", value |-> "v1", confidence |-> "high"] }] :
                   S \in SUBSET Range(AllIssueFields(issues)) }
    /\ cannot_answer_fields \in
           { SelectFields(AllIssueFields(issues), S) :
                 S \in SUBSET Range(AllIssueFields(issues)) }
    /\ chat_history = <<>>
    /\ turn = [t \in TurnIds |-> [pc |-> "waiting"]]
    /\ completed = FALSE
    /\ deals = <<>>
    /\ calls = <<>>

StartReply(t) == StartTurnWith(t, ReplyOutcomes)

NextReply ==
    \E t \in TurnIds :
        \/ StartReply(t)
        \/ ComposeReply(t)

SpecReply == InitReply /\ [][NextReply]_vars

(***************************************************************************)
(* The deals router: regenerate_memo on the 'deals' collection.  A deal    *)
(* document and each of its maps is a dict; the timestamps are left out.   *)
(***************************************************************************)
\* The most requests in flight or finished.
MaxCalls == 2

CallIds == 1..MaxCalls

DealIds == {"d1", "d2"}

Users == {"alice", "bob"}

\* The weightage of a request, weightage.dict().
Weightages == {"w1", "w2"}

\* d.get(k, {}).
GetMap(d, k) == IF k \in DOMAIN d THEN d[k] ELSE <<>>

\* DocumentReference.update with a dotted path "outer.inner".
UpdatePath(doc, outer, inner, value) ==
    Put(doc, outer, Put(GetMap(doc, outer), inner, value))

\* The memo drafts the initial processing may have stored.
InitialDrafts ==
    { [company_overview |-> "o1", risk_metrics |-> "r1", conclusion |-> "c1"],
      [company_overview |-> "o1", risk_metrics |-> "r1", conclusion |-> "c1",
       _weightage_used |-> "w1"] }

\* The documents of deal d1 as upload_file and earlier regenerations may
\* have left them: created with empty maps and failed before or after the
\* text extraction, or processed, with the text and a memo draft.
InitialDocs ==
    LET metadata(status) == [user_id |-> "alice", status |-> status, weightage |-> "w1"]
        text == [pitch_deck |-> [text |-> "t"]]
        raw_files == [pitch_deck_url |-> "p1"]
    IN  { [raw_files |-> raw_files, metadata |-> metadata("error"),
           extracted_text |-> <<>>, memo |-> <<>>],
          [raw_files |-> raw_files, metadata |-> metadata("error"),
           extracted_text |-> text, memo |-> <<>>] }
            \cup { [raw_files |-> raw_files, metadata |-> metadata("processed"),
                    extracted_text |-> text,
                    memo |-> [draft_v1 |-> m, docx_url |-> "u1"]] : m \in InitialDrafts }

\* What recalculate_risk_and_conclusion returns: the two sections, one of
\* them only, or the two sections and another key.
RecalcOutcomes ==
    { [kind |-> "raise"],
      [kind |-> "dict", value |-> [risk_metrics |-> "r2", conclusion |-> "c2"]],
      [kind |-> "dict", value |-> [risk_metrics |-> "r2"]],
      [kind |-> "dict", value |-> [risk_metrics |-> "r2", conclusion |-> "c2",
                                  company_overview |-> "o2"]] }

\* What create_word_document returns.
DocxOutcomes == { [kind |-> "raise"], [kind |-> "url", value |-> "u2"] }

\* updated_memo built from the recalculated sections alone.
UpdatedMemoWithoutCopy(existing_memo, recalculated, weightage) ==
    [risk_metrics |-> recalculated["risk_metrics"],
     conclusion |-> recalculated["conclusion"],
     _weightage_used |-> weightage]

\* updated_memo = existing_memo.copy() with the three keys set.
UpdatedMemo(existing_memo, recalculated, weightage) ==
    Put(Put(Put(existing_memo, "risk_metrics", recalculated["risk_metrics"]),
            "conclusion", recalculated["conclusion"]),
        "_weightage_used", weightage)

\* The checks of regenerate_memo before it writes: the status of the
\* HTTPException raised, or 200 when none is.
RegenerateChecks(deal_id, current_user) ==
    IF deal_id \notin DOMAIN deals THEN 404
    ELSE LET deal_data == deals[deal_id]
         IN  IF Get(GetMap(deal_data, "metadata"), "user_id") # current_user THEN 403
             ELSE IF \/ "memo" \notin DOMAIN deal_data
                     \/ "draft_v1" \notin DOMAIN deal_data["memo"] THEN 400
             ELSE IF \/ "extracted_text" \notin DOMAIN deal_data
                     \/ "pitch_deck" \notin DOMAIN deal_data["extracted_text"] THEN 400
             ELSE 200

\* final_deal_data: the stored document without extracted_text.
WithoutExtractedText(deal_data) ==
    [k \in DOMAIN deal_data \ {"extracted_text"} |-> deal_data[k]]

\* The document after the first update: weightage and status.
Reprocessing(deal_data, weightage) ==
    UpdatePath(UpdatePath(deal_data, "metadata", "weightage", weightage),
               "metadata", "status", "reprocessing")

\* The document after the update of a successful recalculation.
Regenerated(deal_data, updated_memo, docx_url) ==
    UpdatePath(UpdatePath(UpdatePath(deal_data, "memo", "draft_v1", updated_memo),
                          "memo", "docx_url", docx_url),
               "metadata", "status", "processed")

\* The document after the update of the except branch.
RegenerateError(deal_data) ==
    UpdatePath(UpdatePath(deal_data, "metadata", "status", "error"),
               "metadata", "error", "error")

InitDeals ==
    /\ issues = <<>>
    /\ gathered_info = <<>>
    /\ cannot_answer_fields = <<>>
    /\ chat_history = <<>>
    /\ turn = <<>>
    /\ completed = FALSE
    /\ deals \in { [d \in {"d1"} |-> doc] : doc \in InitialDocs }
    /\ calls = [c \in CallIds |-> [pc |-> "idle"]]

\* regenerate_memo up to the await of the recalculation: the document is
\* read and checked, then weightage and status are written.
RegenerateStart(c) ==
    /\ calls[c].pc = "idle"
    /\ \E deal_id \in DealIds, current_user \in Users, weightage \in Weightages :
         LET checked == RegenerateChecks(deal_id, current_user)
         IN  IF checked # 200
             THEN /\ calls' = [calls EXCEPT ![c] =
                         [pc |-> "done", handler |-> "regenerate_memo",
                          deal_id |-> deal_id, requester |-> current_user,
                          status |-> checked]]
                  /\ UNCHANGED deals
             ELSE /\ deals' = [deals EXCEPT ![deal_id] =
                                   Reprocessing(deals[deal_id], weightage)]
                  /\ calls' = [calls EXCEPT ![c] =
                         [pc |-> "recalculating", handler |-> "regenerate_memo",
                          deal_id |-> deal_id, requester |-> current_user,
                          weightage |-> weightage,
                          existing_memo |-> deals[deal_id]["memo"]["draft_v1"]]]
    /\ UNCHANGED <<issues, gathered_info, cannot_answer_fields, chat_history, turn,
                   completed>>

\* regenerate_memo from the return of the recalculation to its response:
\* the memo is rebuilt and stored, or the except branch records the error.
\* An update of a document that was deleted meanwhile raises, in the try
\* block and again in the except branch: the response is 500.
RegenerateFinish(c) ==
    /\ calls[c].pc = "recalculating"
    /\ \E recalculated \in RecalcOutcomes, docx \in DocxOutcomes :
         LET deal_id == calls[c].deal_id
             done == /\ recalculated.kind = "dict"
                     /\ {"risk_metrics", "conclusion"} \subseteq DOMAIN recalculated.value
                     /\ docx.kind = "url"
             failed == [pc |-> "done", handler |-> "regenerate_memo",
                        deal_id |-> deal_id, requester |-> calls[c].requester,
                        status |-> 500]
         IN  IF deal_id \notin DOMAIN deals
             THEN /\ calls' = [calls EXCEPT ![c] = failed]
                  /\ UNCHANGED deals
             ELSE IF done
             THEN LET updated_memo == UpdatedMemo(calls[c].existing_memo,
                                                  recalculated.value, calls[c].weightage)
                      stored == Regenerated(deals[deal_id], updated_memo, docx.value)
                  IN  /\ deals' = [deals EXCEPT ![deal_id] = stored]
                      /\ calls' = [calls EXCEPT ![c] =
                             [pc |-> "done", handler |-> "regenerate_memo",
                              deal_id |-> deal_id,
                              requester |-> calls[c].requester,
                              status |-> 200,
                              weightage |-> calls[c].weightage,
                              body |-> WithoutExtractedText(stored)]]
             ELSE /\ deals' = [deals EXCEPT ![deal_id] = RegenerateError(deals[deal_id])]
                  /\ calls' = [calls EXCEPT ![c] = failed]
    /\ UNCHANGED <<issues, gathered_info, cannot_answer_fields, chat_history, turn,
                   completed>>

NextDeals ==
    \E c \in CallIds :
        \/ RegenerateStart(c)
        \/ RegenerateFinish(c)

SpecDeals == InitDeals /\ [][NextDeals]_vars

(***************************************************************************)
(* The other handlers of one deal: get_deal, delete_deal, download_memo    *)
(* and download_pitch_deck.  None of them awaits between its read of the   *)
(* document and its response, so each is one step.  The requester of a     *)
(* call is recorded with the call; download_pitch_deck takes no            *)
(* current_user, the requester is whoever sent the request.                *)
(***************************************************************************)

\* The stored file is read (bytes) or the storage client raises.
BlobOutcomes == {"bytes", "raise"}

\* The checks shared by get_deal, delete_deal and download_memo: 404 for a
\* missing document, 403 when metadata.user_id is not the current user.
OwnerChecks(deal_id, current_user) ==
    IF deal_id \notin DOMAIN deals
    THEN 404
    ELSE IF Get(GetMap(deals[deal_id], "metadata"), "user_id") # current_user
         THEN 403
         ELSE 200

Responded(handler, deal_id, requester, status) ==
    [pc |-> "done", handler |-> handler, deal_id |-> deal_id,
     requester |-> requester, status |-> status]

GetDeal(c) ==
    /\ calls[c].pc = "idle"
    /\ \E deal_id \in DealIds, current_user \in Users, include_extracted_text \in BOOLEAN :
         LET checked == OwnerChecks(deal_id, current_user)
             response == Responded("get_deal", deal_id, current_user, checked)
         IN  IF checked # 200
             THEN calls' = [calls EXCEPT ![c] = response]
             ELSE calls' = [calls EXCEPT ![c] =
                      Put(response, "body",
                          IF include_extracted_text
                          THEN deals[deal_id]
                          ELSE WithoutExtractedText(deals[deal_id]))]
    /\ UNCHANGED <<issues, gathered_info, cannot_answer_fields, chat_history, turn,
                   completed, deals>>

\* Failures of the deletion of the stored files are swallowed; the
\* document is deleted either way.
DeleteDeal(c) ==
    /\ calls[c].pc = "idle"
    /\ \E deal_id \in DealIds, current_user \in Users :
         LET checked == OwnerChecks(deal_id, current_user)
         IN  /\ calls' = [calls EXCEPT ![c] =
                    Responded("delete_deal", deal_id, current_user, checked)]
             /\ IF checked # 200
                THEN UNCHANGED deals
                ELSE deals' = [d \in DOMAIN deals \ {deal_id} |-> deals[d]]
    /\ UNCHANGED <<issues, gathered_info, cannot_answer_fields, chat_history, turn,
                   completed>>

DownloadMemo(c) ==
    /\ calls[c].pc = "idle"
    /\ \E deal_id \in DealIds, current_user \in Users, blob \in BlobOutcomes :
         LET checked == OwnerChecks(deal_id, current_user)
             docx_url == Get(GetMap(deals[deal_id], "memo"), "docx_url")
             status == IF checked # 200 THEN checked
                       ELSE IF docx_url = None THEN 404
                       ELSE IF blob = "raise" THEN 500
                       ELSE 200
             response == Responded("download_memo", deal_id, current_user, status)
         IN  IF status # 200
             THEN calls' = [calls EXCEPT ![c] = response]
             ELSE calls' = [calls EXCEPT ![c] = Put(response, "file", docx_url)]
    /\ UNCHANGED <<issues, gathered_info, cannot_answer_fields, chat_history, turn,
                   completed, deals>>

\* download_pitch_deck checks that the document and its file exist, and
\* nothing about the requester.
DownloadPitchDeck(c) ==
    /\ calls[c].pc = "idle"
    /\ \E deal_id \in DealIds, requester \in Users, blob \in BlobOutcomes :
         LET pitch_deck_url == Get(GetMap(deals[deal_id], "raw_files"), "pitch_deck_url")
             status == IF deal_id \notin DOMAIN deals THEN 404
                       ELSE IF pitch_deck_url = None THEN 404
                       ELSE IF blob = "raise" THEN 500
                       ELSE 200
             response == Responded("download_pitch_deck", deal_id, requester, status)
         IN  IF status # 200
             THEN calls' = [calls EXCEPT ![c] = response]
             ELSE calls' = [calls EXCEPT ![c] = Put(response, "file", pitch_deck_url)]
    /\ UNCHANGED <<issues, gathered_info, cannot_answer_fields, chat_history, turn,
                   completed, deals>>

NextAccess ==
    \E c \in CallIds :
        \/ RegenerateStart(c)
        \/ RegenerateFinish(c)
        \/ GetDeal(c)
        \/ DeleteDeal(c)
        \/ DownloadMemo(c)
        \/ DownloadPitchDeck(c)

SpecAccess == InitDeals /\ [][NextAccess]_vars

(***************************************************************************)
(* upload_file.  The handler awaits the read of the file, the text         *)
(* extraction, the metadata extraction and the analysis; create_word_      *)
(* document and generate_draft_interview are plain calls.  The deal id is  *)
(* freshly generated for each call: the number of the call stands for it.  *)
(* A call records the service calls that failed while it ran and, once     *)
(* the document is created, the id of its deal.                            *)
(***************************************************************************)

ContentTypes == {"application/pdf", "image/png"}

\* upload_to_gcs returns the gs:// url of the stored file or raises.
GcsOutcomes == { [kind |-> "raise"], [kind |-> "url", value |-> "p1"] }

\* extract_text_from_pdf returns the extracted data or raises an
\* HTTPException (400 for the page limit, 500 otherwise).
TextOutcomes ==
    { [kind |-> "raise"], [kind |-> "dict", value |-> [text |-> "t", pages |-> 1]] }

\* Inside extract_metadata_from_text: the reasoning service's reply parsed
\* as JSON, or an exception of the call or of the parsing.
MetadataReplies ==
    { [kind |-> "raise"],
      [kind |-> "dict", value |-> [company_name |-> "Acme", sector |-> "Fintech"]],
      [kind |-> "dict", value |-> <<>>] }

\* extract_metadata_from_text with the exception handed on to the caller.
ExtractMetadataPropagates(reply) == reply

\* extract_metadata_from_text: every exception is caught and answered with
\* the defaults.
ExtractMetadataFromText(reply) ==
    IF reply.kind = "raise"
    THEN [kind |-> "dict", value |-> [company_name |-> "Unknown", sector |-> "Unknown"]]
    ELSE reply

\* What analyze_with_gemini returns.
AnalysisOutcomes ==
    { [kind |-> "raise"],
      [kind |-> "dict", value |-> [company_overview |-> "o1", risk_metrics |-> "r1",
                                  conclusion |-> "c1"]] }

\* generate_draft_interview returns or raises.
InterviewOutcomes == {"returns", "raise"}

\* initial_data.
InitialData(pitch_deck_url, current_user) ==
    [raw_files |-> [pitch_deck_url |-> pitch_deck_url],
     metadata |-> [weightage |-> "w1", status |-> "processing",
                   user_id |-> current_user, company_name |-> "",
                   error |-> None, sector |-> ""],
     extracted_text |-> <<>>,
     memo |-> <<>>]

\* The document after the update with the extracted metadata.
WithMetadata(deal_data, metadata) ==
    UpdatePath(UpdatePath(deal_data, "metadata", "company_name",
                          IF "company_name" \in DOMAIN metadata
                          THEN metadata["company_name"] ELSE "Unknown"),
               "metadata", "sector",
               IF "sector" \in DOMAIN metadata THEN metadata["sector"] ELSE "Unknown")

\* The document after the final update.
UploadProcessed(deal_data, analysis, docx_url) ==
    UpdatePath(UpdatePath(UpdatePath(deal_data, "memo", "draft_v1", analysis),
                          "memo", "docx_url", docx_url),
               "metadata", "status", "processed")

\* The document after the update of the inner except branch.
UploadFailed(deal_data) ==
    UpdatePath(UpdatePath(deal_data, "metadata", "status", "error"),
               "metadata", "error", "error")

\* The response of upload_file, with the request it answers.
UploadResponded(call, status) ==
    Put(Put(call, "pc", "done"), "status", status)

InitUpload ==
    /\ issues = <<>>
    /\ gathered_info = <<>>
    /\ cannot_answer_fields = <<>>
    /\ chat_history = <<>>
    /\ turn = <<>>
    /\ completed = FALSE
    /\ deals = <<>>
    /\ calls = [c \in CallIds |-> [pc |-> "idle"]]

\* upload_file up to the await of the text extraction: the content type is
\* checked, the file is stored and the document is created.
UploadStart(c) ==
    /\ calls[c].pc = "idle"
    /\ \E content_type \in ContentTypes, current_user \in Users, stored \in GcsOutcomes :
         LET call == [handler |-> "upload_file",
                      requester |-> current_user, content_type |-> content_type,
                      failures |-> {}]
         IN  IF content_type # "application/pdf"
             THEN /\ calls' = [calls EXCEPT ![c] = UploadResponded(call, 400)]
                  /\ UNCHANGED deals
             ELSE IF stored.kind = "raise"
             THEN /\ calls' = [calls EXCEPT ![c] =
                         UploadResponded([call EXCEPT !.failures = {"storage"}], 500)]
                  /\ UNCHANGED deals
             ELSE /\ deals' = Put(deals, c, InitialData(stored.value, current_user))
                  /\ calls' = [calls EXCEPT ![c] =
                         Put(Put(call, "deal_id", c), "pc", "extracting_text")]
    /\ UNCHANGED <<issues, gathered_info, cannot_answer_fields, chat_history, turn,
                   completed>>

\* From the return of extract_text_from_pdf to the await of the metadata.
UploadExtractText(c) ==
    /\ calls[c].pc = "extracting_text"
    /\ \E extracted_data \in TextOutcomes :
         LET deal_id == calls[c].deal_id
         IN  IF extracted_data.kind = "raise"
             THEN /\ deals' = [deals EXCEPT ![deal_id] = UploadFailed(deals[deal_id])]
                  /\ calls' = [calls EXCEPT ![c] =
                         UploadResponded([calls[c] EXCEPT !.failures = @ \cup {"text"}],
                                         500)]
             ELSE /\ deals' = [deals EXCEPT ![deal_id] =
                         UpdatePath(deals[deal_id], "extracted_text", "pitch_deck",
                                    extracted_data.value)]
                  /\ calls' = [calls EXCEPT ![c].pc = "extracting_metadata"]
    /\ UNCHANGED <<issues, gathered_info, cannot_answer_fields, chat_history, turn,
                   completed>>

\* From the return of extract_metadata_from_text to the await of the
\* analysis.
UploadExtractMetadata(c) ==
    /\ calls[c].pc = "extracting_metadata"
    /\ \E reply \in MetadataReplies :
         LET deal_id == calls[c].deal_id
             metadata == ExtractMetadataFromText(reply)
             failures == IF reply.kind = "raise"
                         THEN calls[c].failures \cup {"metadata"}
                         ELSE calls[c].failures
         IN  IF metadata.kind = "raise"
             THEN /\ deals' = [deals EXCEPT ![deal_id] = UploadFailed(deals[deal_id])]
                  /\ calls' = [calls EXCEPT ![c] =
                         UploadResponded([calls[c] EXCEPT !.failures = failures], 500)]
             ELSE /\ deals' = [deals EXCEPT ![deal_id] =
                         WithMetadata(deals[deal_id], metadata.value)]
                  /\ calls' = [calls EXCEPT ![c].pc = "analysing",
                                            ![c].failures = failures]
    /\ UNCHANGED <<issues, gathered_info, cannot_answer_fields, chat_history, turn,
                   completed>>

\* From the return of analyze_with_gemini to the response: the document is
\* created and stored with the memo and status "processed", then the draft
\* interview is generated and the document is read again for the response.
UploadFinish(c) ==
    /\ calls[c].pc = "analysing"
    /\ \E analysis \in AnalysisOutcomes, docx \in DocxOutcomes,
          interview \in InterviewOutcomes :
         LET deal_id == calls[c].deal_id
             failed(step) == UploadResponded([calls[c] EXCEPT !.failures = @ \cup {step}],
                                             500)
         IN  IF analysis.kind = "raise"
             THEN /\ deals' = [deals EXCEPT ![deal_id] = UploadFailed(deals[deal_id])]
                  /\ calls' = [calls EXCEPT ![c] = failed("analysis")]
             ELSE IF docx.kind = "raise"
             THEN /\ deals' = [deals EXCEPT ![deal_id] = UploadFailed(deals[deal_id])]
                  /\ calls' = [calls EXCEPT ![c] = failed("document")]
             ELSE LET stored == UploadProcessed(deals[deal_id], analysis.value, docx.value)
                  IN  IF interview = "raise"
                      THEN /\ deals' = [deals EXCEPT ![deal_id] = UploadFailed(stored)]
                           /\ calls' = [calls EXCEPT ![c] = failed("interview")]
                      ELSE /\ deals' = [deals EXCEPT ![deal_id] = stored]
                           /\ calls' = [calls EXCEPT ![c] =
                                  Put(UploadResponded(calls[c], 200), "body",
                                      WithoutExtractedText(stored))]
    /\ UNCHANGED <<issues, gathered_info, cannot_answer_fields, chat_history, turn,
                   completed>>

NextUpload ==
    \E c \in CallIds :
        \/ UploadStart(c)
        \/ UploadExtractText(c)
        \/ UploadExtractMetadata(c)
        \/ UploadFinish(c)

SpecUpload == InitUpload /\ [][NextUpload]_vars

(***************************************************************************)
(* Vocabulary of the properties.                                           *)
(***************************************************************************)
\* The fields attempted so far, in the stored state.
AttemptedFields == DOMAIN gathered_info \cup Range(cannot_answer_fields)

\* The field names of the catalog the turn T works with.
CatalogFields(T) == Range(AllIssueFields(T.interview_data.issues))

\* The keys the turn T added to gathered_info.
AddedKeys(T) ==
    DOMAIN T.result.gathered_info \ DOMAIN T.interview_data.gathered_info

\* The service's answer to T's extraction call is a JSON object.
AnsweredObject(T) == T.analysis.kind = "object"

\* An entry of the answered object whose data is no object, for a catalog field.
MalformedEntry(T, i) ==
    /\ T.analysis.extracted[i][1] \in CatalogFields(T)
    /\ T.analysis.extracted[i][2].type # "object"

\* An entry of the answered object the merge accepts.
AcceptedEntry(T, i) ==
    /\ T.analysis.extracted[i][1] \in CatalogFields(T)
    /\ T.analysis.extracted[i][2].type = "object"
    /\ "confidence" \in DOMAIN T.analysis.extracted[i][2]
    /\ T.analysis.extracted[i][2].confidence \in {"high", "medium"}

\* The extraction call was made and failed: no usable JSON object, or an
\* object whose merge raises.
ExtractionFailed(T) ==
    \/ T.analysis.kind \in {"raise", "no_text", "empty", "bad_json", "not_object"}
    \/ /\ AnsweredObject(T)
       /\ \E i \in 1..Len(T.analysis.extracted) : MalformedEntry(T, i)

\* The extraction call was made and its answer was merged.
ExtractionSucceeded(T) ==
    /\ AnsweredObject(T)
    /\ \A i \in 1..Len(T.analysis.extracted) : ~MalformedEntry(T, i)

ReturnedTurns == {t \in TurnIds : turn[t].pc = "returned"}

(***************************************************************************)
(* C1. Across the turns of a session, with the caller storing each turn's  *)
(* gathered_info and unioning its new cannot-answer fields, the set of     *)
(* attempted fields (keys of gathered_info, cannot_answer_fields) never    *)
(* loses a member, whatever the reasoning service answers.                 *)
(***************************************************************************)
C1_AttemptedNeverShrinks == [][AttemptedFields \subseteq AttemptedFields']_vars

\* A turn whose extraction call raised has returned, over a stored state that
\* holds a gathered field and a cannot-answer field.
C1_Witness ==
    \E t \in ReturnedTurns :
        /\ turn[t].analysis.kind = "raise"
        /\ DOMAIN gathered_info # {}
        /\ cannot_answer_fields # <<>>

(***************************************************************************)
(* C2. When extraction succeeds, is_complete is true exactly when every    *)
(* catalog field is a key of the merged gathered_info or among the         *)
(* existing or new cannot-answer fields; a field that is both counts once. *)
(***************************************************************************)
C2_CompleteIffAllCovered ==
    \A t \in ReturnedTurns :
        LET T == turn[t]
        IN  ExtractionSucceeded(T) =>
                (T.result.is_complete <=>
                    CatalogFields(T) \subseteq
                        (DOMAIN T.result.gathered_info
                            \cup Range(T.interview_data.cannot_answer_fields)
                            \cup Range(T.result.cannot_answer_fields)))

(***************************************************************************)
(* C3. A field that is a key of the stored gathered_info keeps its answer  *)
(* in every later stored gathered_info.                                    *)
(***************************************************************************)
C3_FirstAnswerKept ==
    [][\A f \in DOMAIN gathered_info :
          /\ f \in DOMAIN gathered_info'
          /\ gathered_info'[f] = gathered_info[f]]_vars

(***************************************************************************)
(* C4. A key a turn adds to gathered_info was proposed in that turn with   *)
(* confidence high or medium: a proposal of any other, or of no,           *)
(* confidence adds nothing.                                                *)
(***************************************************************************)
C4_ConfidenceGate ==
    \A t \in ReturnedTurns :
        LET T == turn[t]
        IN  \A f \in AddedKeys(T) :
                /\ AnsweredObject(T)
                /\ \E i \in 1..Len(T.analysis.extracted) :
                       /\ T.analysis.extracted[i][1] = f
                       /\ "confidence" \in DOMAIN T.analysis.extracted[i][2]
                       /\ T.analysis.extracted[i][2].confidence \in {"high", "medium"}

\* A merged answer that proposed one new catalog field with an accepted
\* confidence and another with confidence low or none; only the first was added.
C4_Witness ==
    \E t \in ReturnedTurns :
        LET T == turn[t]
        IN  /\ ExtractionSucceeded(T)
            /\ \E i, j \in 1..Len(T.analysis.extracted) :
                   /\ AcceptedEntry(T, i)
                   /\ T.analysis.extracted[i][1] \in AddedKeys(T)
                   /\ T.analysis.extracted[j][1] \in CatalogFields(T)
                   /\ T.analysis.extracted[j][2].type = "object"
                   /\ ~AcceptedEntry(T, j)
                   /\ T.analysis.extracted[j][1] \notin DOMAIN T.result.gathered_info

(***************************************************************************)
(* C5. Every key a turn adds to gathered_info and every entry of the new   *)
(* cannot-answer list it returns is a field of the catalog.                *)
(***************************************************************************)
C5_OnlyCatalogFields ==
    \A t \in ReturnedTurns :
        LET T == turn[t]
        IN  /\ AddedKeys(T) \subseteq CatalogFields(T)
            /\ Range(T.result.cannot_answer_fields) \subseteq CatalogFields(T)

\* A merged answer that proposed a name outside the catalog with confidence
\* high and listed a name outside the catalog as cannot-answer.
C5_Witness ==
    \E t \in ReturnedTurns :
        LET T == turn[t]
        IN  /\ ExtractionSucceeded(T)
            /\ \E i \in 1..Len(T.analysis.extracted) :
                   /\ T.analysis.extracted[i][1] \notin CatalogFields(T)
                   /\ T.analysis.extracted[i][2].type = "object"
                   /\ "confidence" \in DOMAIN T.analysis.extracted[i][2]
                   /\ T.analysis.extracted[i][2].confidence = "high"
            /\ \E f \in Range(T.analysis.cannot_answer) : f \notin CatalogFields(T)

(***************************************************************************)
(* C6. When the extraction call fails (it raises, gives no text, empty     *)
(* text, no JSON, no object, or an object whose merge raises part-way),    *)
(* the turn returns gathered_info as it was given, no new cannot-answer    *)
(* field and is_complete false.                                            *)
(***************************************************************************)
C6_FailureLeavesState ==
    \A t \in ReturnedTurns :
        LET T == turn[t]
        IN  ExtractionFailed(T) =>
                /\ T.completion_check.gathered_info = T.interview_data.gathered_info
                /\ T.completion_check.cannot_answer_fields = <<>>
                /\ T.completion_check.is_complete = FALSE

\* An answer whose first entry is accepted for a field not gathered before
\* and whose second entry is malformed.
C6_Witness ==
    \E t \in ReturnedTurns :
        LET T == turn[t]
        IN  /\ AnsweredObject(T)
            /\ Len(T.analysis.extracted) > 1
            /\ AcceptedEntry(T, 1)
            /\ T.analysis.extracted[1][1] \notin DOMAIN T.interview_data.gathered_info
            /\ MalformedEntry(T, Len(T.analysis.extracted))

(***************************************************************************)
(* C7. Every turn has a non-empty reply, whatever the generation call      *)
(* gives (text, white space, no text, an exception) and whatever the       *)
(* extraction call gives, in both modes; the result holds message,         *)
(* is_complete, gathered_info and cannot_answer_fields; when both calls    *)
(* fail, gathered_info is returned as given and no cannot-answer field.    *)
(***************************************************************************)
C7_AlwaysReplies ==
    \A t \in TurnIds :
        LET T == turn[t]
        IN  /\ T.pc \in {"extracting", "returned"} => NonEmptyText(T.ai_message)
            /\ T.pc = "returned" =>
                  /\ DOMAIN T.result =
                         {"message", "is_complete", "gathered_info", "cannot_answer_fields"}
                  /\ NonEmptyText(T.result.message)
                  /\ T.result.is_complete \in BOOLEAN
                  /\ (T.chat_error /\ ExtractionFailed(T)) =>
                         /\ T.result.gathered_info = T.interview_data.gathered_info
                         /\ T.result.cannot_answer_fields = <<>>

\* A closing-mode turn has returned after both calls failed, over a stored
\* state that is not empty.
C7_Witness ==
    \E t \in ReturnedTurns :
        /\ turn[t].will_be_closing
        /\ turn[t].chat_error
        /\ ExtractionFailed(turn[t])
        /\ DOMAIN turn[t].interview_data.gathered_info # {}

(***************************************************************************)
(* C8. At most one turn of the session is in flight (between the read of   *)
(* the stored state and the storing of its result) at any time.            *)
(***************************************************************************)
C8_OneTurnInFlight ==
    \A t, u \in TurnIds : (InFlight(t) /\ InFlight(u)) => t = u

\* A turn is in flight while a later message waits for its turn.
C8_Witness ==
    \E t, u \in TurnIds : InFlight(t) /\ t < u /\ turn[u].pc = "waiting"

(***************************************************************************)
(* C9. A field in the stored cannot_answer_fields stays there, and no turn *)
(* that then computes has it in still_needed, has its question among the   *)
(* candidate next questions, or asks it in the fallback reply.             *)
(***************************************************************************)
QuestionOf(f) ==
    (CHOOSE i \in Range(AllIssues) : i.field = f).question

NotAskedAgain(T, f) ==
    /\ \A i \in 1..Len(T.still_needed) : T.still_needed[i].field # f
    /\ f # NoiseField => QuestionOf(f) \notin Range(T.next_questions)
    /\ (f # NoiseField /\ T.pc \in {"extracting", "returned"}) =>
           T.ai_message # <<"Thanks for sharing! ">> \o QuestionOf(f)

C9_CannotAnswerNotAskedAgain ==
    [][/\ Range(cannot_answer_fields) \subseteq Range(cannot_answer_fields')
       /\ \A t \in TurnIds :
             turn'[t].pc \in {"generated", "extracting", "returned"} =>
                 \A f \in Range(cannot_answer_fields) : NotAskedAgain(turn'[t], f)]_vars

\* A continuation turn that fell back to its templated question while a
\* cannot-answer field is stored.
C9_Witness ==
    \E t \in TurnIds :
        /\ turn[t].pc \in {"extracting", "returned"}
        /\ cannot_answer_fields # <<>>
        /\ turn[t].still_needed # <<>>
        /\ turn[t].chat_error

(***************************************************************************)
(* C10. A turn's reply is composed in closing mode exactly when, in the    *)
(* state the turn was given, every catalog field is a key of gathered_info *)
(* or in cannot_answer_fields; in closing mode a usable text of the        *)
(* service is the reply as it is (stripped), with no question mark added.  *)
(***************************************************************************)
C10_ClosingMode ==
    [][\A t \in TurnIds :
          (turn[t].pc = "generated" /\ turn'[t].pc # "generated") =>
              LET T == turn[t]
              IN  /\ T.will_be_closing <=>
                         CatalogFields(T) \subseteq
                             (DOMAIN T.interview_data.gathered_info
                                 \cup Range(T.interview_data.cannot_answer_fields))
                  /\ turn'[t].will_be_closing = T.will_be_closing
                  /\ (T.will_be_closing /\ T.response.kind = "text"
                         /\ Strip(T.response.text) # <<>>) =>
                         turn'[t].ai_message = Strip(T.response.text)]_vars

\* A closing-mode turn whose reply is the service's text, ending in a full stop.
C10_Witness ==
    \E t \in TurnIds :
        /\ turn[t].pc \in {"extracting", "returned"}
        /\ turn[t].will_be_closing
        /\ ~turn[t].chat_error
        /\ EndsWith(turn[t].ai_message, ".")

(***************************************************************************)
(* C11: extraction is idempotent on an unchanged transcript.               *)
(***************************************************************************)
\* analyze_and_extract applied a second time, to the state the turn leaves
\* (its returned gathered_info, the stored cannot-answer fields unioned
\* with the returned ones), with the same transcript and the same answer
\* of the reasoning service.
SecondApplication(T) ==
    IF T.analysis.kind = "not_called"
    THEN SkippedResult(T.interview_data.issues, T.result.gathered_info)
    ELSE ExtractedResult(T.interview_data.issues, T.result.gathered_info,
                         UnionInto(T.interview_data.cannot_answer_fields,
                                   T.result.cannot_answer_fields),
                         T.analysis)

\* C11: for every returned turn, applying the extraction again to the state
\* it produced, with the same transcript and the same service answer,
\* yields the same gathered_info, the same persisted set of cannot-answer
\* fields and the same is_complete as the first application.
C11_ExtractionIdempotent ==
    \A t \in ReturnedTurns :
        LET T      == turn[t]
            stored == UnionInto(T.interview_data.cannot_answer_fields,
                                T.result.cannot_answer_fields)
            again  == SecondApplication(T)
        IN  /\ again.gathered_info = T.result.gathered_info
            /\ Range(UnionInto(stored, again.cannot_answer_fields)) = Range(stored)
            /\ again.is_complete = T.result.is_complete

\* A returned turn whose extraction both gathered a field and reported a
\* new cannot-answer field, so that the second application starts from a
\* state that differs from the first one's, and is complete again.
C11_Witness ==
    \E t \in ReturnedTurns :
        /\ ExtractionSucceeded(turn[t])
        /\ AddedKeys(turn[t]) # {}
        /\ turn[t].result.cannot_answer_fields # <<>>
        /\ SecondApplication(turn[t]).is_complete

(***************************************************************************)
(* C12: the first participant message skips the extraction call.           *)
(***************************************************************************)
\* The participant messages of the transcript of turn T, the current one
\* included.
ParticipantMessages(T) ==
    Cardinality({i \in 1..Len(T.chat_history) : T.chat_history[i].role = "user"}) + 1

\* C12: whatever the catalog and the incoming state, a returned turn whose
\* transcript, the current message included, holds fewer than 2 participant
\* messages has not called the reasoning service for extraction and returns
\* the incoming gathered_info, no new cannot-answer field and is_complete
\* false; a returned turn with 2 or more participant messages has called it.
C12_FirstTurnSkipsExtraction ==
    \A t \in ReturnedTurns :
        LET T == turn[t]
        IN  IF ParticipantMessages(T) < 2
            THEN /\ T.analysis.kind = "not_called"
                 /\ T.result.gathered_info = T.interview_data.gathered_info
                 /\ T.result.cannot_answer_fields = <<>>
                 /\ ~T.result.is_complete
            ELSE T.analysis \in ExtractOutcomes

\* A first turn has returned over an incoming state in which every catalog
\* field is already attempted and a non-catalog key is present.
C12_Witness ==
    \E t \in ReturnedTurns :
        /\ ParticipantMessages(turn[t]) < 2
        /\ turn[t].chat_history # <<>>
        /\ CatalogFields(turn[t]) \subseteq
               DOMAIN turn[t].interview_data.gathered_info
                   \cup Range(turn[t].interview_data.cannot_answer_fields)
        /\ NoiseField \in DOMAIN turn[t].interview_data.gathered_info

(***************************************************************************)
(* C13: the reply of the turn that completes the interview.                *)
(***************************************************************************)
\* The fields attempted in the state turn T leaves to the caller.
AttemptedAfter(T) ==
    DOMAIN T.result.gathered_info
        \cup Range(UnionInto(T.interview_data.cannot_answer_fields,
                             T.result.cannot_answer_fields))

\* Turn T is the one in which the last unattempted catalog field becomes
\* attempted, and it returns is_complete = true.
LastFieldAttempted(T) ==
    /\ ~(CatalogFields(T) \subseteq
             DOMAIN T.interview_data.gathered_info
                 \cup Range(T.interview_data.cannot_answer_fields))
    /\ CatalogFields(T) \subseteq AttemptedAfter(T)
    /\ T.result.is_complete

\* C13 as stated: in the turn in which the last unattempted catalog field
\* becomes attempted and is_complete = true is returned, the reply of that
\* same turn is generated in closing mode.
C13_CompletingReplyIsClosing ==
    \A t \in ReturnedTurns :
        LastFieldAttempted(turn[t]) => turn[t].will_be_closing

\* C13 amended: in the turn in which the last unattempted catalog field
\* becomes attempted and is_complete = true is returned, the reply of that
\* same turn is generated in continuation mode, the mode being chosen from
\* the state before the turn; the state the turn leaves has nothing still
\* needed, so that the next turn replies in closing mode.
C13_CompletingReplyContinues ==
    \A t \in ReturnedTurns :
        LET T == turn[t]
        IN  LastFieldAttempted(T) =>
                /\ ~T.will_be_closing
                /\ T.still_needed # <<>>
                /\ WillBeClosing(StillNeeded(T.interview_data.issues,
                                             T.result.gathered_info,
                                             UnionInto(T.interview_data.cannot_answer_fields,
                                                       T.result.cannot_answer_fields)))

\* The scenario: one field was gathered before the turn, and in the turn
\* the participant declares the other one unanswerable.
C13_Witness ==
    \E t \in ReturnedTurns :
        /\ LastFieldAttempted(turn[t])
        /\ Len(turn[t].interview_data.issues) > 1
        /\ DOMAIN turn[t].interview_data.gathered_info # {}
        /\ AddedKeys(turn[t]) = {}
        /\ turn[t].result.cannot_answer_fields # <<>>

(***************************************************************************)
(* C14: completion is terminal.                                            *)
(***************************************************************************)
\* An earlier turn of the session has returned is_complete = true and the
\* caller has stored its state.
CompletedBefore(t) ==
    /\ completed
    /\ \E u \in TurnIds : u < t /\ turn[u].pc = "done"

\* C14 as stated: once a turn of a session has returned is_complete = true,
\* every later turn of that session also returns is_complete = true.
C14_CompletionTerminal ==
    \A t \in ReturnedTurns :
        CompletedBefore(t) => turn[t].result.is_complete

\* C14 amended: once a turn of a session has returned is_complete = true,
\* every later turn of that session whose extraction call succeeds also
\* returns is_complete = true, and a later turn whose extraction call fails
\* returns is_complete = false.
C14_CompletionTerminalOnSuccess ==
    \A t \in ReturnedTurns :
        CompletedBefore(t) =>
            /\ ExtractionSucceeded(turn[t]) => turn[t].result.is_complete
            /\ ExtractionFailed(turn[t]) => ~turn[t].result.is_complete

\* After a turn that returned is_complete = true, a later turn has returned
\* from a successful extraction that reported nothing.
C14_Witness ==
    \E t \in ReturnedTurns :
        /\ CompletedBefore(t)
        /\ ExtractionSucceeded(turn[t])
        /\ turn[t].analysis.extracted = <<>>
        /\ turn[t].analysis.cannot_answer = <<>>

(***************************************************************************)
(* C15: regenerate_memo changes only the recalculated sections.            *)
(***************************************************************************)
\* Request c ends in this step with a successful regeneration.
Regenerates(c) ==
    /\ calls[c].pc = "recalculating"
    /\ calls'[c].pc = "done"
    /\ calls'[c].status = 200

\* Outside the keys in changed, the draft after has the keys of the draft
\* before, with the same values.
SameOutside(before, after, changed) ==
    /\ DOMAIN after \ changed = DOMAIN before \ changed
    /\ \A k \in DOMAIN before \ changed : after[k] = before[k]

\* C15 as stated: a successful regeneration leaves every key of
\* memo.draft_v1 other than risk_metrics and conclusion with the value it
\* had, and adds or removes no other key.
C15_OnlyRiskAndConclusion ==
    [][\A c \in CallIds :
          Regenerates(c) =>
              SameOutside(deals[calls[c].deal_id]["memo"]["draft_v1"],
                          deals'[calls[c].deal_id]["memo"]["draft_v1"],
                          {"risk_metrics", "conclusion"})]_vars

\* C15 amended: a successful regeneration leaves every key of memo.draft_v1
\* other than risk_metrics, conclusion and _weightage_used with the value it
\* had and adds or removes no other key; risk_metrics and conclusion are
\* the recalculated sections and _weightage_used is set to the weightage of
\* the request.
C15_OnlyRecalculatedAndWeightage ==
    [][\A c \in CallIds :
          Regenerates(c) =>
              LET after == deals'[calls[c].deal_id]["memo"]["draft_v1"]
              IN  /\ SameOutside(deals[calls[c].deal_id]["memo"]["draft_v1"], after,
                                 {"risk_metrics", "conclusion", "_weightage_used"})
                  /\ after["_weightage_used"] = calls[c].weightage
                  /\ after["risk_metrics"] = "r2"
                  /\ after["conclusion"] = "c2"]_vars

\* A regeneration has succeeded: the stored draft holds the recalculated
\* risk_metrics and still the section that is not recalculated.
C15_Witness ==
    \E c \in CallIds :
        /\ calls[c].pc = "done"
        /\ calls[c].status = 200
        /\ deals[calls[c].deal_id]["memo"]["draft_v1"]["company_overview"] = "o1"
        /\ deals[calls[c].deal_id]["memo"]["draft_v1"]["risk_metrics"] = "r2"

(***************************************************************************)
(* C16: entries that are no catalog fields do not count.                   *)
(***************************************************************************)
\* gathered_info without its keys that are no catalog fields.
CatalogOnly(T) ==
    [f \in DOMAIN T.interview_data.gathered_info \cap CatalogFields(T) |->
        T.interview_data.gathered_info[f]]

\* analyze_and_extract of turn T, applied to its inputs with every entry
\* that is no catalog field removed from gathered_info and from the
\* existing cannot-answer list.
CleanedApplication(T) ==
    IF T.analysis.kind = "not_called"
    THEN SkippedResult(T.interview_data.issues, CatalogOnly(T))
    ELSE ExtractedResult(T.interview_data.issues, CatalogOnly(T),
                         SelectFields(T.interview_data.cannot_answer_fields,
                                      CatalogFields(T)),
                         T.analysis)

\* C16: for any inputs, the is_complete a turn returns equals the one
\* obtained after removing all non-catalog entries from gathered_info and
\* from the existing cannot-answer list.
C16_NonCatalogEntriesIgnored ==
    \A t \in ReturnedTurns :
        turn[t].result.is_complete = CleanedApplication(turn[t]).is_complete

(***************************************************************************)
(* C17: the post-processing of a continuation reply.                       *)
(***************************************************************************)
\* The five cases of the post-processing, applied to text s.
PostProcessed(s) ==
    CASE EndsWith(s, "?") -> s
      [] EndsWith(s, ".") /\ ~Contains(s, "?") -> SubSeq(s, 1, Len(s) - 1) \o <<"?">>
      [] EndsWith(s, ".") /\ Contains(s, "?") -> s
      [] EndsWith(s, "!") -> s
      [] OTHER -> s \o <<"?">>

\* In this step the reply of turn t is fixed, in continuation mode, from a
\* text of the reasoning service that is not replaced by the fallback.
RepliesWithText(t) ==
    /\ turn[t].pc = "generated"
    /\ turn'[t].pc # "generated"
    /\ ~turn[t].will_be_closing
    /\ ~turn'[t].chat_error

\* C17 as stated: in continuation mode the reply is the text returned by
\* the reasoning service, post-processed by the five cases, with no other
\* character of the text changed.
C17_PostProcessingOfReturnedText ==
    [][\A t \in TurnIds :
          RepliesWithText(t) =>
              turn'[t].ai_message = PostProcessed(turn[t].response.text)]_vars

\* C17 amended: in continuation mode the reply is the text returned by the
\* reasoning service with its leading and trailing white space removed,
\* post-processed by the five cases, with no other character changed.
C17_PostProcessingOfStrippedText ==
    [][\A t \in TurnIds :
          RepliesWithText(t) =>
              turn'[t].ai_message = PostProcessed(Strip(turn[t].response.text))]_vars

\* A reply was fixed from a text that ends in a full stop and holds a
\* question mark elsewhere, and is that text.
C17_Witness ==
    \E t \in TurnIds :
        /\ turn[t].pc = "returned"
        /\ ~turn[t].will_be_closing
        /\ ~turn[t].chat_error
        /\ EndsWith(turn[t].ai_message, ".")
        /\ Contains(turn[t].ai_message, "?")

(***************************************************************************)
(* C18: still_needed, the candidate questions and the fallback question.   *)
(***************************************************************************)
\* The positions in the catalog of the issues whose field is neither a key
\* of gathered_info nor in cannot_answer_fields.
NeededPositions(T) ==
    {i \in 1..Len(T.interview_data.issues) :
        /\ T.interview_data.issues[i].field \notin DOMAIN T.interview_data.gathered_info
        /\ T.interview_data.issues[i].field
               \notin Range(T.interview_data.cannot_answer_fields)}

\* C18: in every turn, still_needed is the subsequence of the catalog, in
\* catalog order, at the needed positions; next_questions holds the
\* questions of its first min(3, |still_needed|) entries in that order; and
\* the continuation fallback message asks the question of its first entry.
C18_StillNeededInCatalogOrder ==
    \A t \in TurnIds :
        InFlight(t) =>
            LET T == turn[t]
                n == Len(T.still_needed)
            IN  /\ n = Cardinality(NeededPositions(T))
                /\ \A k \in 1..n :
                       \E i \in NeededPositions(T) :
                           /\ Cardinality({j \in NeededPositions(T) : j < i}) = k - 1
                           /\ T.still_needed[k] = T.interview_data.issues[i]
                /\ Len(T.next_questions) = (IF n < 3 THEN n ELSE 3)
                /\ \A k \in 1..Len(T.next_questions) :
                       T.next_questions[k] = T.still_needed[k].question
                /\ (T.pc = "returned" /\ T.chat_error /\ ~T.will_be_closing) =>
                       T.ai_message =
                           <<"Thanks for sharing! ">> \o T.still_needed[1].question

\* A turn with more needed issues than candidate questions has returned
\* the continuation fallback message.
C18_Witness ==
    \E t \in ReturnedTurns :
        /\ turn[t].chat_error
        /\ ~turn[t].will_be_closing
        /\ Len(turn[t].still_needed) > Len(turn[t].next_questions)

(***************************************************************************)
(* C19: one extraction per turn, after the reply, on the extended          *)
(* transcript.                                                             *)
(***************************************************************************)
\* The reasoning service has been asked for the extraction of turn T.
ExtractionCalled(T) == T.pc = "returned" /\ T.analysis.kind # "not_called"

\* The transcript handed to the extraction of turn T is the stored prior
\* transcript, entry by entry, then the participant's message, then the
\* reply of the turn.
TranscriptOfTurn(T) ==
    LET n == Len(T.chat_history)
    IN  /\ T.chat_history = chat_history
        /\ Len(T.history) = n + 2
        /\ \A i \in 1..n : T.history[i] = chat_history[i]
        /\ T.history[n + 1] = [role |-> "user", message |-> T.user_message]
        /\ T.history[n + 2] = [role |-> "assistant", message |-> T.ai_message]

\* C19: the step in which the extraction of a turn is called starts from a
\* state where the reply of the turn is fixed and is the reply the turn
\* returns; the transcript it receives is the prior transcript, unchanged,
\* followed by the participant's message and then the reply; and once the
\* extraction of a turn has been called it is not called again.
C19_OneExtractionAfterReply ==
    [][\A t \in TurnIds :
          /\ (ExtractionCalled(turn'[t]) /\ ~ExtractionCalled(turn[t])) =>
                 /\ turn[t].pc = "extracting"
                 /\ TranscriptOfTurn(turn[t])
                 /\ turn'[t].history = turn[t].history
                 /\ turn'[t].result.message = turn[t].ai_message
          /\ ExtractionCalled(turn[t]) =>
                 turn'[t] = turn[t] \/ turn'[t].pc = "done"]_vars

\* The extraction of a turn with a non-empty prior transcript was called
\* after a fallback reply.
C19_Witness ==
    \E t \in ReturnedTurns :
        /\ ExtractionCalled(turn[t])
        /\ turn[t].chat_history # <<>>
        /\ turn[t].chat_error

(***************************************************************************)
(* C20: the calls leave their inputs unchanged.                            *)
(***************************************************************************)
\* The objects the caller passed to turn t, as they are now, are what the
\* caller read from the store when it started the turn.
InputsAsPassed(t) ==
    /\ turn[t].interview_data.issues = issues
    /\ turn[t].interview_data.gathered_info = gathered_info
    /\ turn[t].interview_data.cannot_answer_fields = cannot_answer_fields
    /\ turn[t].chat_history = chat_history

\* C20: at every point of a call, and after it has returned on any path
\* (success, skip, failure), the catalog, the incoming gathered_info, the
\* incoming cannot_answer_fields and the incoming chat_history are as they
\* were passed; the updated state is in the returned result only.
C20_InputsUnchanged ==
    \A t \in TurnIds : InFlight(t) => InputsAsPassed(t)

\* A turn has returned a result whose gathered_info and cannot-answer
\* fields differ from the inputs, over a state that earlier turns filled.
C20_Witness ==
    \E t \in ReturnedTurns :
        /\ ExtractionSucceeded(turn[t])
        /\ AddedKeys(turn[t]) # {}
        /\ turn[t].result.cannot_answer_fields # <<>>
        /\ turn[t].interview_data.gathered_info # <<>>
        /\ turn[t].result.gathered_info # turn[t].interview_data.gathered_info

(***************************************************************************)
(* C21: gathered and cannot-answer fields are disjoint.                    *)
(***************************************************************************)
\* C21: in every state of a session that started empty, with the caller
\* unioning each turn's new cannot-answer fields, no field is both a key
\* of gathered_info and in the persisted cannot_answer_fields.
C21_GatheredAndCannotDisjoint ==
    DOMAIN gathered_info \cap Range(cannot_answer_fields) = {}

(***************************************************************************)
(* C22: a turn that starts complete and extracts successfully is complete. *)
(***************************************************************************)
\* Turn T started with every catalog field a key of gathered_info or in
\* cannot_answer_fields.
StartsAttempted(T) ==
    CatalogFields(T) \subseteq
        DOMAIN T.interview_data.gathered_info
            \cup Range(T.interview_data.cannot_answer_fields)

\* C22: a returned turn that started with every catalog field attempted,
\* so that its reply is in closing mode, whose transcript holds at least 2
\* participant messages and whose extraction call succeeded, returns
\* is_complete = true, whatever the reasoning service reported.
C22_CompleteStaysComplete ==
    \A t \in ReturnedTurns :
        LET T == turn[t]
        IN  (StartsAttempted(T) /\ ParticipantMessages(T) >= 2
                 /\ ExtractionSucceeded(T)) =>
                /\ T.will_be_closing
                /\ T.result.is_complete

\* Such a turn has returned, its start state covering a catalog of two
\* issues by one gathered field and one cannot-answer field, and the
\* service reporting entries of its own.
C22_Witness ==
    \E t \in ReturnedTurns :
        /\ StartsAttempted(turn[t])
        /\ ExtractionSucceeded(turn[t])
        /\ Len(turn[t].interview_data.issues) > 1
        /\ DOMAIN turn[t].interview_data.gathered_info \cap CatalogFields(turn[t]) # {}
        /\ Range(turn[t].interview_data.cannot_answer_fields) \cap CatalogFields(turn[t]) # {}
        /\ turn[t].analysis.extracted # <<>>
        /\ turn[t].analysis.cannot_answer # <<>>

(***************************************************************************)
(* C23: a session in which every extraction makes progress.                *)
(***************************************************************************)
\* The extraction of returned turn T succeeded and newly gathered, or newly
\* reported as cannot-answer, a field of its still_needed.
MakesProgress(T) ==
    /\ ExtractionSucceeded(T)
    /\ \E i \in 1..Len(T.still_needed) :
           T.still_needed[i].field
               \in AddedKeys(T) \cup Range(T.result.cannot_answer_fields)

\* The extraction call of a turn ends as the progress assumption has it:
\* with success, and with progress while a field is still needed.
ExtractWithProgress(t) ==
    /\ ExtractAnswers(t)
    /\ ExtractionSucceeded(turn'[t])
    /\ turn[t].still_needed # <<>> => MakesProgress(turn'[t])

NextProgress ==
    \E t \in TurnIds :
        \/ StartTurn(t)
        \/ ComposeReply(t)
        \/ ExtractWithProgress(t)
        \/ Persist(t)

SpecProgress == Init /\ [][NextProgress]_vars

\* C23: in a session whose every turn after the first extracts with
\* progress, a turn has returned is_complete = true once as many such turns
\* have returned as the catalog has issues, and every turn started after a
\* turn returned is_complete = true has an empty still_needed.
C23_CompletesWithinCatalogTurns ==
    /\ \A t \in ReturnedTurns :
           t - 1 >= Len(issues) => (completed \/ turn[t].result.is_complete)
    /\ \A t \in TurnIds :
           (InFlight(t) /\ completed) => turn[t].still_needed = <<>>

(***************************************************************************)
(* C26: two regenerate_memo calls on the same deal.                        *)
(***************************************************************************)
\* Requests c and d are two regenerations of the same deal with different
\* weightages, and both have finished successfully.
BothRegenerated(c, d) ==
    /\ c # d
    /\ calls[c].pc = "done" /\ calls[c].status = 200
    /\ calls[d].pc = "done" /\ calls[d].status = 200
    /\ calls[c].handler = "regenerate_memo" /\ calls[d].handler = "regenerate_memo"
    /\ calls[c].deal_id = calls[d].deal_id
    /\ calls[c].weightage # calls[d].weightage

\* C26: once two regenerate_memo calls on the same deal with different
\* weightages have both finished successfully, however they interleaved,
\* the stored metadata.weightage equals memo.draft_v1._weightage_used.
C26_WeightageMatchesMemo ==
    \A c, d \in CallIds :
        BothRegenerated(c, d) =>
            LET deal_data == deals[calls[c].deal_id]
            IN  deal_data["metadata"]["weightage"]
                    = deal_data["memo"]["draft_v1"]["_weightage_used"]

\* C24: a call of a deal-scoped handler (get_deal, regenerate_memo,
\* delete_deal, download_memo, download_pitch_deck) for a deal that does not
\* exist answers 404, a call by a user who is not the deal's
\* metadata.user_id answers 403, and in both cases the stored deals are
\* left as they were.
C24_OnlyOwnerIsServed ==
    [][\A c \in CallIds :
          (calls[c].pc = "idle" /\ calls'[c].pc # "idle") =>
              LET deal_id == calls'[c].deal_id
                  requester == calls'[c].requester
              IN  /\ deal_id \notin DOMAIN deals =>
                        (calls'[c].pc = "done" /\ calls'[c].status = 404
                            /\ deals' = deals)
                  /\ (/\ deal_id \in DOMAIN deals
                      /\ deals[deal_id]["metadata"]["user_id"] # requester) =>
                        (calls'[c].pc = "done" /\ calls'[c].status = 403
                            /\ deals' = deals)]_vars

\* The steps of upload_file after the creation of the document.
ProcessingSteps == {"text", "metadata", "analysis", "document", "interview"}

Uploaded(c) == calls[c].pc = "done" /\ calls[c].handler = "upload_file"

\* What holds of the finished calls of upload_file when a failure of a step
\* outside `absorbed` is what ends a call with status "error" and 500.
UploadOutcomes(absorbed) ==
    \A c \in CallIds :
        Uploaded(c) =>
            LET created == "deal_id" \in DOMAIN calls[c]
                status == deals[calls[c].deal_id]["metadata"]["status"]
                memo == deals[calls[c].deal_id]["memo"]
                failed == (calls[c].failures \cap ProcessingSteps) \ absorbed # {}
            IN  /\ calls[c].content_type # "application/pdf" =>
                      (calls[c].status = 400 /\ ~created /\ c \notin DOMAIN deals)
                /\ created => status \in {"processed", "error"}
                /\ calls[c].status = 200 =>
                      /\ created /\ status = "processed"
                      /\ {"draft_v1", "docx_url"} \subseteq DOMAIN memo
                /\ (created /\ failed) => (status = "error" /\ calls[c].status = 500)
                /\ (created /\ ~failed) => calls[c].status = 200

\* C25, as stated: when upload_file finishes, the document it created has
\* status "processed" or "error"; it answers 200 only with status
\* "processed" and memo.draft_v1 and memo.docx_url set; a failure of any
\* processing step (text extraction, metadata, analysis, document creation,
\* draft interview generation) ends with status "error" and 500; a non-PDF
\* upload is answered 400 and creates no document.
C25_AnyStepFailureEndsInError == UploadOutcomes({})

\* C25, amended: the same, except that a failure inside the metadata
\* extraction is caught there and answered with the defaults: alone, it
\* leaves the call on its way to status "processed" and 200.
C25_StepFailureEndsInErrorButMetadata == UploadOutcomes({"metadata"})

C25_Witness ==
    \E c \in CallIds :
        /\ Uploaded(c)
        /\ calls[c].failures = {"metadata"}
        /\ calls[c].status = 200
        /\ deals[calls[c].deal_id]["metadata"]["company_name"] = "Unknown"
        /\ \E d \in CallIds :
             /\ Uploaded(d)
             /\ "interview" \in calls[d].failures
             /\ deals[calls[d].deal_id]["metadata"]["status"] = "error"

====
